---------------------------- MODULE Spec2Model ----------------------------
(***************************************************************************)
(* State machines of the resume-parser front end.                          *)
(*                                                                         *)
(*   Spec       the backend-integrated App (src/README.md:123-390) with    *)
(*              the Uploader of src/unnamed/part_002 and the Sidebar of    *)
(*              src/src/components/Sidebar.tsx                             *)
(*   SpecLocal  the local-storage App (src/src/App.tsx:35-181) with the    *)
(*              Uploader of src/unnamed/part_000:49-62                     *)
(*   SpecFetch  the fetch App (src/src/App.tsx:379-517) with the Uploader  *)
(*              of src/unnamed/part_000:1-35                               *)
(*   SpecFair   Spec, with every fetch call eventually settling            *)
(*   SpecToggle Spec, with the sidebar toggle among the events             *)
(*                                                                         *)
(* One step is one discrete event of the browser's event loop: a user      *)
(* action on a rendered control, or the settling of a fetch (the handler's *)
(* code after its awaits runs without interruption and React batches its   *)
(* state updates into one render).  A control that is not rendered in the  *)
(* current state cannot be acted on; a drop on the disabled dropzone is an *)
(* event that changes nothing.                                             *)
(***************************************************************************)
EXTENDS Naturals, Sequences, FiniteSets

\* ------------------------------------------------------------- bounds
\* Number of requests (fetch calls) one run may issue.
MaxRequests == 4
\* The same for the runs checked under fairness.
MaxFairRequests == 3

\* ------------------------------------------------------------ values
\* Ids a record can carry (backend: chosen by the server; local: Date.now()).
Ids == {1, 2}

\* null of `string | null`
NoError == "<null>"
\* null of `ArchivedResume | null` / undefined of analyses.find
NoAnalysis == [id |-> 0, filename |-> ""]
\* null of `File | null`
NoFile == [name |-> "", type |-> ""]

\* null of `ResumeData | null`; a ResumeData is reduced to the name of the
\* file it was parsed from.
NoData == [parsedFrom |-> ""]
\* No response body (the event is not a non-2xx response).
NoBody == "<none>"
\* A response body that is not JSON.
Unparseable == "<unparseable>"

PDF == "application/pdf"
\* Files the user can drop on the Uploader.
Files == { [name |-> "cv.pdf", type |-> PDF],
           [name |-> "b.pdf", type |-> PDF],
           [name |-> "notes.txt", type |-> "text/plain"] }

\* A record ArchivedResume / AnalysisStub, reduced to its identity and name.
Record(i, n) == [id |-> i, filename |-> n]

FileNames == {f.name : f \in Files}

\* Messages of the errors the handlers throw themselves.
ListFailed == "Failed to fetch history"
DetailsFailed == "Failed to fetch analysis details."
SomethingWrong == "Something went wrong"
\* Message of the TypeError a rejected fetch carries.
NetworkError == "Failed to fetch"
\* Message of the SyntaxError response.json() rejects with.
JsonError == "Unexpected token < in JSON"
\* Values of the `detail` field of an error body; "" stands for an empty
\* string and "<absent>" for a body with no detail field.
Details == {"Unsupported file", "", "<absent>"}

VARIABLES
    history,          \* backend: AnalysisStub[]
    currentAnalysis,  \* backend: ArchivedResume | null
    isLoading,        \* boolean
    error,            \* string | null
    uploaderKey,      \* backend: key of <Uploader>, compared for equality only
    selectedFile,     \* Uploader's own state; NoFile while it is not mounted
    analyses,         \* local: ArchivedResume[]
    currentAnalysisId,\* local: string | null (0 is null)
    storage,          \* local: localStorage['resumeAnalyses']
    crashed,          \* local: a render threw and React unmounted the App
    isSidebarOpen,    \* boolean
    file,             \* fetch variant: File | null
    resumeData,       \* fetch variant: ResumeData | null
    requests,         \* fetch calls that have not settled yet
    issued,           \* number of fetch calls made so far
    lastEvent         \* the event that produced this state (observation only)

vars == <<history, currentAnalysis, isLoading, error, uploaderKey, selectedFile,
          analyses, currentAnalysisId, storage, crashed, file, resumeData,
          isSidebarOpen, requests, issued, lastEvent>>

backendVars == <<history, currentAnalysis, uploaderKey, selectedFile>>
localVars == <<analyses, currentAnalysisId, storage, crashed>>
fetchVars == <<file, resumeData>>

\* --------------------------------------------------------- sequences
SeqIds(s) == {s[k].id : k \in 1..Len(s)}

\* Array.prototype.find(a => a.id === i): the first match, or undefined.
RECURSIVE Find(_, _)
Find(s, i) ==
    IF s = <<>> THEN NoAnalysis
    ELSE IF Head(s).id = i THEN Head(s)
    ELSE Find(Tail(s), i)

\* ---------------------------------------------------------- requests
Request(n, k, f, t, h) ==
    [id |-> n, kind |-> k, file |-> f, target |-> t, captured |-> h,
     superseded |-> FALSE]

InFlight(k) == {r \in requests : r.kind = k}

\* A user action that replaces what is shown supersedes the submits and
\* fetches-by-id in flight (the list load only feeds the Sidebar).
Supersede(rs) ==
    {IF r.kind = "list" THEN r ELSE [r EXCEPT !.superseded = TRUE] : r \in rs}


\* An error string React renders as the error branch (`error ? ... :`).
Truthy(e) == e # NoError /\ e # ""

\* Bodies GET /analyses can answer with: the server's stored stubs, in the
\* server's order, no id twice.
ServerStub(i) == Record(i, "old.pdf")
ListBodies ==
    {<<>>} \cup {<<ServerStub(i)>> : i \in Ids}
           \cup {<<ServerStub(p[1]), ServerStub(p[2])>> :
                    p \in {q \in Ids \X Ids : q[1] # q[2]}}

\* How a fetch can settle: 2xx with a JSON body, 2xx with a body that is not
\* JSON, non-2xx with a JSON body, non-2xx with a body that is not JSON, or
\* a rejected fetch (network failure).
Outcomes == {"ok", "okBadJson", "notOk", "notOkBadJson", "network"}

\* What POST /parse-resume can be answered with: a record under an id of the
\* server's choice, an error body with or without detail, or one of the
\* other outcomes.
Response(o, i, d) == [outcome |-> o, id |-> i, detail |-> d]
SubmitResponses ==
    {Response("ok", i, "<absent>") : i \in Ids}
      \cup {Response("notOk", 0, d) : d \in Details}
      \cup {Response(o, 0, "<absent>") : o \in Outcomes \ {"ok", "notOk"}}

\* The body of a non-2xx answer as the handler meets it: its detail field
\* ("<absent>" when the JSON has none), or Unparseable.
ResponseBody(resp) ==
    CASE resp.outcome = "notOk"        -> resp.detail
      [] resp.outcome = "notOkBadJson" -> Unparseable
      [] OTHER                         -> NoBody

\* ===================================================================
\* Backend-integrated App
\* ===================================================================

\* App render: the Uploader is the last branch of
\* `error ? ... : currentAnalysis ? ... : <Uploader key={uploaderKey} .../>`.
UploaderShown(err, cur) == ~Truthy(err) /\ cur = NoAnalysis

\* The Uploader's useState survives a render only while the same instance
\* stays mounted; a new instance starts with null.
KeepSelected(sf, err, cur) == IF UploaderShown(err, cur) THEN sf ELSE NoFile

\* useDropzone({accept: {'application/pdf': ['.pdf']}}): the files handed
\* to onDrop as acceptedFiles.
Accepted(f) == IF f.type = PDF THEN <<f>> ELSE <<>>

\* errorData.detail with the `||` fallback left out: new Error(undefined)
\* has the empty message.
DetailNoFallback(d) == IF d = "<absent>" THEN "" ELSE d

\* errorData.detail || 'Something went wrong'
DetailOrFallback(d) == IF d = "<absent>" \/ d = "" THEN SomethingWrong ELSE d

\* The message handleGenerateSummary's catch block passes to setError.
SubmitMessage(outcome, d) ==
    CASE outcome = "notOk"        -> DetailOrFallback(d)
      [] outcome = "notOkBadJson" -> JsonError
      [] outcome = "okBadJson"    -> JsonError
      [] outcome = "network"      -> NetworkError

\* The message fetchHistory's catch block passes to setError.
ListMessage(outcome) ==
    CASE outcome = "notOk"        -> ListFailed
      [] outcome = "notOkBadJson" -> ListFailed
      [] outcome = "okBadJson"    -> JsonError
      [] outcome = "network"      -> NetworkError

\* The message handleSelectAnalysis's catch block passes to setError.
SelectMessage(outcome) ==
    CASE outcome = "notOk"        -> DetailsFailed
      [] outcome = "notOkBadJson" -> DetailsFailed
      [] outcome = "okBadJson"    -> JsonError
      [] outcome = "network"      -> NetworkError

\* The mount effect with a fetchHistory that does not set isLoading: GET
\* /analyses is in flight and the Uploader is enabled.
InitNotLoading ==
    /\ history = <<>>
    /\ currentAnalysis = NoAnalysis
    /\ isLoading = FALSE
    /\ error = NoError
    /\ uploaderKey = 0
    /\ selectedFile = NoFile
    /\ analyses = <<>>
    /\ currentAnalysisId = 0
    /\ storage = [kind |-> "missing", items |-> <<>>]
    /\ crashed = FALSE
    /\ file = NoFile
    /\ resumeData = NoData
    /\ isSidebarOpen = TRUE
    /\ requests = {Request(1, "list", NoFile, 0, <<>>)}
    /\ issued = 1
    /\ lastEvent = [op |-> "mount", id |-> 0, file |-> NoFile, body |-> NoBody]

\* useState initialisers, then the mount effect up to its first await:
\* fetchHistory has set isLoading and GET /analyses is in flight.
Init ==
    /\ history = <<>>
    /\ currentAnalysis = NoAnalysis
    /\ isLoading = TRUE
    /\ error = NoError
    /\ uploaderKey = 0
    /\ selectedFile = NoFile
    /\ analyses = <<>>
    /\ currentAnalysisId = 0
    /\ storage = [kind |-> "missing", items |-> <<>>]
    /\ crashed = FALSE
    /\ file = NoFile
    /\ resumeData = NoData
    /\ isSidebarOpen = TRUE
    /\ requests = {Request(1, "list", NoFile, 0, <<>>)}
    /\ issued = 1
    /\ lastEvent = [op |-> "mount", id |-> 0, file |-> NoFile, body |-> NoBody]

\* fetchHistory after its awaits.
FetchHistorySettles(r, outcome, data) ==
    /\ r \in InFlight("list")
    /\ requests' = requests \ {r}
    /\ IF outcome = "ok"
       THEN history' = data /\ error' = error
       ELSE history' = history /\ error' = ListMessage(outcome)
    /\ isLoading' = FALSE
    /\ selectedFile' = KeepSelected(selectedFile, error', currentAnalysis)
    /\ lastEvent' = [op |-> IF outcome = "ok" THEN "listSucceeded" ELSE "listFailed",
                     id |-> r.id, file |-> NoFile, body |-> NoBody]
    /\ UNCHANGED <<currentAnalysis, uploaderKey, issued>>
    /\ UNCHANGED <<localVars, fetchVars, isSidebarOpen>>

\* onDrop that keeps a file once one is selected (as if noClick blocked
\* drops as well as clicks).
OnDropKeepsFirst(f) ==
    /\ UploaderShown(error, currentAnalysis)
    /\ selectedFile' = IF ~isLoading /\ Len(Accepted(f)) > 0 /\ selectedFile = NoFile
                       THEN Accepted(f)[1]
                       ELSE selectedFile
    /\ lastEvent' = [op |-> "drop", id |-> 0, file |-> f, body |-> NoBody]
    /\ UNCHANGED <<history, currentAnalysis, isLoading, error, uploaderKey,
                   requests, issued>>
    /\ UNCHANGED <<localVars, fetchVars, isSidebarOpen>>

\* A file dropped on (or picked through) the dropzone of the mounted
\* Uploader.  While isLoading the dropzone is disabled and ignores the
\* gesture; otherwise onDrop gets the files that pass the accept filter.
OnDrop(f) ==
    /\ UploaderShown(error, currentAnalysis)
    /\ selectedFile' = IF ~isLoading /\ Len(Accepted(f)) > 0
                       THEN Accepted(f)[1]
                       ELSE selectedFile
    /\ lastEvent' = [op |-> "drop", id |-> 0, file |-> f, body |-> NoBody]
    /\ UNCHANGED <<history, currentAnalysis, isLoading, error, uploaderKey,
                   requests, issued>>
    /\ UNCHANGED <<localVars, fetchVars, isSidebarOpen>>

\* Uploader.handleReset, the Change File button (rendered with a file
\* selected and isLoading false).
ChangeFile ==
    /\ UploaderShown(error, currentAnalysis)
    /\ selectedFile # NoFile
    /\ ~isLoading
    /\ selectedFile' = NoFile
    /\ lastEvent' = [op |-> "changeFile", id |-> 0, file |-> NoFile, body |-> NoBody]
    /\ UNCHANGED <<history, currentAnalysis, isLoading, error, uploaderKey,
                   requests, issued>>
    /\ UNCHANGED <<localVars, fetchVars, isSidebarOpen>>

\* handleGenerateSummary(file) up to its first await.
GenerateSummaryStart(f) ==
    /\ f # NoFile
    /\ issued < MaxRequests
    /\ isLoading' = TRUE
    /\ error' = NoError
    /\ currentAnalysis' = NoAnalysis
    /\ issued' = issued + 1
    /\ requests' = requests \cup {Request(issued + 1, "submit", f, 0, history)}
    /\ selectedFile' = KeepSelected(selectedFile, error', currentAnalysis')
    /\ UNCHANGED <<history, uploaderKey>>

\* handleAnalyze that hands the file over and clears the Uploader's own
\* selectedFile (setSelectedFile(null) after onFileSelect).
HandleAnalyzeClears ==
    /\ UploaderShown(error, currentAnalysis)
    /\ selectedFile # NoFile
    /\ ~isLoading
    /\ issued < MaxRequests
    /\ isLoading' = TRUE
    /\ error' = NoError
    /\ currentAnalysis' = NoAnalysis
    /\ issued' = issued + 1
    /\ requests' = requests
          \cup {Request(issued + 1, "submit", selectedFile, 0, history)}
    /\ selectedFile' = NoFile
    /\ lastEvent' = [op |-> "analyze", id |-> 0, file |-> NoFile, body |-> NoBody]
    /\ UNCHANGED <<history, uploaderKey>>
    /\ UNCHANGED <<localVars, fetchVars, isSidebarOpen>>

\* Uploader.handleAnalyze, the Analyze button (rendered with a file selected
\* and isLoading false), which calls onFileSelect = handleGenerateSummary.
HandleAnalyze ==
    /\ UploaderShown(error, currentAnalysis)
    /\ selectedFile # NoFile
    /\ ~isLoading
    /\ GenerateSummaryStart(selectedFile)
    /\ lastEvent' = [op |-> "analyze", id |-> 0, file |-> NoFile, body |-> NoBody]
    /\ UNCHANGED <<localVars, fetchVars, isSidebarOpen>>

\* handleGenerateSummary after its awaits.
GenerateSummarySettles(r, resp) ==
    /\ r \in InFlight("submit")
    /\ requests' = requests \ {r}
    /\ IF resp.outcome = "ok"
       THEN LET newAnalysis == Record(resp.id, r.file.name) IN
            /\ currentAnalysis' = newAnalysis
            /\ history' = <<newAnalysis>> \o history
            /\ error' = error
       ELSE /\ error' = SubmitMessage(resp.outcome, resp.detail)
            /\ UNCHANGED <<currentAnalysis, history>>
    /\ isLoading' = FALSE
    /\ selectedFile' = KeepSelected(selectedFile, error', currentAnalysis')
    /\ lastEvent' = [op |-> IF resp.outcome = "ok" THEN "submitSucceeded"
                             ELSE "submitFailed",
                     id |-> r.id, file |-> NoFile, body |-> ResponseBody(resp)]
    /\ UNCHANGED <<uploaderKey, issued>>
    /\ UNCHANGED <<localVars, fetchVars, isSidebarOpen>>

\* handleSelectAnalysis with the guard `currentAnalysis?.id === id` left out.
HandleSelectAnalysisUnguarded(id) ==
    /\ id \in SeqIds(history)
    /\ lastEvent' = [op |-> "select", id |-> id, file |-> NoFile, body |-> NoBody]
    /\ issued < MaxRequests
    /\ isLoading' = TRUE
    /\ error' = NoError
    /\ issued' = issued + 1
    /\ requests' = Supersede(requests)
                     \cup {Request(issued + 1, "get", NoFile, id, history)}
    /\ selectedFile' = KeepSelected(selectedFile, error', currentAnalysis)
    /\ UNCHANGED <<history, currentAnalysis, uploaderKey>>
    /\ UNCHANGED <<localVars, fetchVars, isSidebarOpen>>

\* handleSelectAnalysis(id) up to its first await, reached through a Sidebar
\* entry (one button per element of history, never disabled).
HandleSelectAnalysis(id) ==
    /\ id \in SeqIds(history)
    /\ lastEvent' = [op |-> "select", id |-> id, file |-> NoFile, body |-> NoBody]
    /\ IF currentAnalysis # NoAnalysis /\ currentAnalysis.id = id
       THEN UNCHANGED <<history, currentAnalysis, isLoading, error, uploaderKey,
                        selectedFile, requests, issued>>
       ELSE /\ issued < MaxRequests
            /\ isLoading' = TRUE
            /\ error' = NoError
            /\ issued' = issued + 1
            /\ requests' = Supersede(requests)
                             \cup {Request(issued + 1, "get", NoFile, id, history)}
            /\ selectedFile' = KeepSelected(selectedFile, error', currentAnalysis)
            /\ UNCHANGED <<history, currentAnalysis, uploaderKey>>
    /\ UNCHANGED <<localVars, fetchVars, isSidebarOpen>>

\* handleSelectAnalysis after its awaits, with setIsLoading(false) on the
\* success path only instead of in a finally block.
SelectAnalysisSettlesNoFinally(r, outcome, full) ==
    /\ r \in InFlight("get")
    /\ requests' = requests \ {r}
    /\ full.id = r.target
    /\ IF outcome = "ok"
       THEN currentAnalysis' = full /\ error' = error /\ isLoading' = FALSE
       ELSE /\ currentAnalysis' = currentAnalysis
            /\ error' = SelectMessage(outcome)
            /\ isLoading' = isLoading
    /\ selectedFile' = KeepSelected(selectedFile, error', currentAnalysis')
    /\ lastEvent' = [op |-> IF outcome = "ok" THEN "selectSucceeded" ELSE "selectFailed",
                     id |-> r.id, file |-> NoFile, body |-> NoBody]
    /\ UNCHANGED <<history, uploaderKey, issued>>
    /\ UNCHANGED <<localVars, fetchVars, isSidebarOpen>>

\* handleSelectAnalysis after its awaits.  The server answers with the
\* record it stores under the requested id.
SelectAnalysisSettles(r, outcome, full) ==
    /\ r \in InFlight("get")
    /\ requests' = requests \ {r}
    /\ full.id = r.target
    /\ IF outcome = "ok"
       THEN currentAnalysis' = full /\ error' = error
       ELSE currentAnalysis' = currentAnalysis /\ error' = SelectMessage(outcome)
    /\ isLoading' = FALSE
    /\ selectedFile' = KeepSelected(selectedFile, error', currentAnalysis')
    /\ lastEvent' = [op |-> IF outcome = "ok" THEN "selectSucceeded" ELSE "selectFailed",
                     id |-> r.id, file |-> NoFile, body |-> NoBody]
    /\ UNCHANGED <<history, uploaderKey, issued>>
    /\ UNCHANGED <<localVars, fetchVars, isSidebarOpen>>

\* handleNewAnalysis that also empties the history.
HandleNewAnalysisClearsHistory ==
    /\ currentAnalysis' = NoAnalysis
    /\ error' = NoError
    /\ history' = <<>>
    /\ uploaderKey' = (uploaderKey + 1) % 2
    /\ selectedFile' = NoFile
    /\ requests' = Supersede(requests)
    /\ lastEvent' = [op |-> "newAnalysis", id |-> 0, file |-> NoFile, body |-> NoBody]
    /\ UNCHANGED <<isLoading, issued>>
    /\ UNCHANGED <<localVars, fetchVars, isSidebarOpen>>

\* handleNewAnalysis without setError(null).
HandleNewAnalysisKeepsError ==
    /\ currentAnalysis' = NoAnalysis
    /\ uploaderKey' = (uploaderKey + 1) % 2
    /\ selectedFile' = NoFile
    /\ requests' = Supersede(requests)
    /\ lastEvent' = [op |-> "newAnalysis", id |-> 0, file |-> NoFile, body |-> NoBody]
    /\ UNCHANGED <<history, isLoading, issued, error>>
    /\ UNCHANGED <<localVars, fetchVars, isSidebarOpen>>

\* handleNewAnalysis, the New Analysis button of the Sidebar (always
\* rendered, never disabled).  The new key remounts the Uploader.
HandleNewAnalysis ==
    /\ currentAnalysis' = NoAnalysis
    /\ error' = NoError
    /\ uploaderKey' = (uploaderKey + 1) % 2
    /\ selectedFile' = NoFile
    /\ requests' = Supersede(requests)
    /\ lastEvent' = [op |-> "newAnalysis", id |-> 0, file |-> NoFile, body |-> NoBody]
    /\ UNCHANGED <<history, isLoading, issued>>
    /\ UNCHANGED <<localVars, fetchVars, isSidebarOpen>>

Next ==
    \/ \E r \in requests, data \in ListBodies : FetchHistorySettles(r, "ok", data)
    \/ \E r \in requests, o \in Outcomes \ {"ok"} : FetchHistorySettles(r, o, <<>>)
    \/ \E f \in Files : OnDrop(f)
    \/ ChangeFile
    \/ HandleAnalyze
    \/ \E r \in requests, resp \in SubmitResponses : GenerateSummarySettles(r, resp)
    \/ \E id \in Ids : HandleSelectAnalysis(id)
    \/ \E r \in requests, o \in Outcomes, k \in 1..Len(history) :
          SelectAnalysisSettles(r, o, history[k])
    \/ HandleNewAnalysis

Spec == Init /\ [][Next]_vars

\* The fetch call number n settles, in any of the ways it can.
SettleRequest(n) ==
    \E r \in requests :
       /\ r.id = n
       /\ \/ \E data \in ListBodies : FetchHistorySettles(r, "ok", data)
          \/ \E o \in Outcomes \ {"ok"} : FetchHistorySettles(r, o, <<>>)
          \/ \E resp \in SubmitResponses : GenerateSummarySettles(r, resp)
          \/ \E o \in Outcomes, k \in 1..Len(history) :
                SelectAnalysisSettles(r, o, history[k])

\* An event the user causes.
UserAction ==
    \/ \E f \in Files : OnDrop(f)
    \/ ChangeFile
    \/ HandleAnalyze
    \/ \E id \in Ids : HandleSelectAnalysis(id)
    \/ HandleNewAnalysis

NextFair ==
    \/ \E n \in 1..MaxFairRequests : SettleRequest(n)
    \/ UserAction /\ issued' <= MaxFairRequests

\* The sidebar toggle button: setIsSidebarOpen(!isSidebarOpen).
ToggleSidebar ==
    /\ isSidebarOpen' = ~isSidebarOpen
    /\ lastEvent' = [op |-> "toggleSidebar", id |-> 0, file |-> NoFile, body |-> NoBody]
    /\ UNCHANGED <<history, currentAnalysis, isLoading, error, uploaderKey,
                   selectedFile, requests, issued>>
    /\ UNCHANGED <<localVars, fetchVars>>

\* The backend-integrated App with the sidebar toggle among its events, in
\* runs of at most MaxFairRequests fetch calls.
NextToggle == NextFair \/ ToggleSidebar

SpecToggle == Init /\ [][NextToggle]_vars

\* The backend-integrated App under the assumption that every fetch call made
\* eventually settles (the network answers or fails); the user's actions
\* stay unconstrained.
SpecFair ==
    /\ Init
    /\ [][NextFair]_vars
    /\ \A n \in 1..MaxFairRequests : WF_vars(SettleRequest(n))

\* ===================================================================
\* Local-storage App
\* ===================================================================

\* Message of the DOMException localStorage.setItem throws over quota.
QuotaError == "The quota has been exceeded."

\* JSON.stringify(updatedAnalyses): the text of an array, one object per
\* record, written here as the tuple of its fields.
Stringify(s) ==
    [kind |-> "array", items |-> [k \in 1..Len(s) |-> <<s[k].id, s[k].filename>>]]

\* JSON.parse(storedAnalyses) of a text Stringify wrote.
Parse(blob) == [k \in 1..Len(blob.items) |-> Record(blob.items[k][1], blob.items[k][2])]

\* What localStorage can hold under 'resumeAnalyses' when the App starts:
\* nothing, a text that is not JSON, JSON that is not an array, or the array
\* an earlier session wrote.
StoredBlobs ==
    { [kind |-> "missing", items |-> <<>>],
      [kind |-> "corrupt", items |-> <<>>],
      [kind |-> "object", items |-> <<>>],
      Stringify(<<>>),
      Stringify(<<Record(2, "old.pdf")>>),
      Stringify(<<Record(1, "old.pdf"), Record(2, "old.pdf")>>) }

\* The mount effect: what `analyses` holds after it, when it is an array.
LoadAnalyses(blob) ==
    IF blob.kind = "array" THEN Parse(blob) ELSE <<>>

\* const currentAnalysis = analyses.find(a => a.id === currentAnalysisId)
LocalCurrentAnalysis(as, cid) == Find(as, cid)

\* App render: `isLoading ? loader : error ? ... : currentAnalysis ? ... :
\* <Uploader/>`.
LocalUploaderShown ==
    /\ ~isLoading
    /\ ~Truthy(error)
    /\ LocalCurrentAnalysis(analyses, currentAnalysisId) = NoAnalysis

\* useState initialisers, then the mount effect.  JSON that parses to a
\* value without .find makes the next render throw.
InitLocal ==
    /\ storage \in StoredBlobs
    /\ analyses = LoadAnalyses(storage)
    /\ crashed = (storage.kind = "object")
    /\ file = NoFile
    /\ resumeData = NoData
    /\ isSidebarOpen = TRUE
    /\ currentAnalysisId = 0
    /\ isLoading = FALSE
    /\ error = NoError
    /\ history = <<>>
    /\ currentAnalysis = NoAnalysis
    /\ uploaderKey = 0
    /\ selectedFile = NoFile
    /\ requests = {}
    /\ issued = 0
    /\ lastEvent = [op |-> "mount", id |-> 0, file |-> NoFile, body |-> NoBody]

\* Uploader.onDrop (src/unnamed/part_000), which calls onFileSelect =
\* handleGenerateSummary(file) up to its first await.  `analyses` of this
\* render is captured by the closure.
LocalOnDrop(f) ==
    /\ ~crashed
    /\ LocalUploaderShown
    /\ Len(Accepted(f)) > 0
    /\ issued < MaxRequests
    /\ isLoading' = TRUE
    /\ error' = NoError
    /\ issued' = issued + 1
    /\ requests' = requests
          \cup {Request(issued + 1, "submit", Accepted(f)[1], 0, analyses)}
    /\ lastEvent' = [op |-> "drop", id |-> 0, file |-> f, body |-> NoBody]
    /\ UNCHANGED <<analyses, currentAnalysisId, storage, crashed>>
    /\ UNCHANGED <<backendVars, fetchVars, isSidebarOpen>>

\* handleGenerateSummary after its awaits, persisting the `analyses` state of
\* the render (the list before the append) instead of updatedAnalyses.
LocalGenerateSummarySettlesStale(r, resp, now, quota) ==
    /\ ~crashed
    /\ r \in InFlight("submit")
    /\ requests' = requests \ {r}
    /\ IF resp.outcome = "ok"
       THEN LET newAnalysis == Record(now, r.file.name)
                updatedAnalyses == r.captured \o <<newAnalysis>>
            IN  /\ analyses' = updatedAnalyses
                /\ IF quota
                   THEN /\ error' = QuotaError
                        /\ UNCHANGED <<storage, currentAnalysisId>>
                   ELSE /\ storage' = Stringify(r.captured)
                        /\ currentAnalysisId' = newAnalysis.id
                        /\ error' = error
       ELSE /\ error' = SubmitMessage(resp.outcome, resp.detail)
            /\ UNCHANGED <<analyses, storage, currentAnalysisId>>
    /\ isLoading' = FALSE
    /\ lastEvent' = [op |-> IF resp.outcome # "ok" THEN "submitFailed"
                             ELSE IF quota THEN "persistFailed"
                             ELSE "submitSucceeded",
                     id |-> r.id, file |-> NoFile, body |-> ResponseBody(resp)]
    /\ UNCHANGED <<crashed, issued>>
    /\ UNCHANGED <<backendVars, fetchVars, isSidebarOpen>>

\* handleGenerateSummary after its awaits.  now is Date.now(); quota tells
\* whether localStorage.setItem throws.
LocalGenerateSummarySettles(r, resp, now, quota) ==
    /\ ~crashed
    /\ r \in InFlight("submit")
    /\ requests' = requests \ {r}
    /\ IF resp.outcome = "ok"
       THEN LET newAnalysis == Record(now, r.file.name)
                updatedAnalyses == r.captured \o <<newAnalysis>>
            IN  /\ analyses' = updatedAnalyses
                /\ IF quota
                   THEN /\ error' = QuotaError
                        /\ UNCHANGED <<storage, currentAnalysisId>>
                   ELSE /\ storage' = Stringify(updatedAnalyses)
                        /\ currentAnalysisId' = newAnalysis.id
                        /\ error' = error
       ELSE /\ error' = SubmitMessage(resp.outcome, resp.detail)
            /\ UNCHANGED <<analyses, storage, currentAnalysisId>>
    /\ isLoading' = FALSE
    /\ lastEvent' = [op |-> IF resp.outcome # "ok" THEN "submitFailed"
                             ELSE IF quota THEN "persistFailed"
                             ELSE "submitSucceeded",
                     id |-> r.id, file |-> NoFile, body |-> ResponseBody(resp)]
    /\ UNCHANGED <<crashed, issued>>
    /\ UNCHANGED <<backendVars, fetchVars, isSidebarOpen>>

\* handleSelectAnalysis(id), reached through a Sidebar entry.
LocalSelectAnalysis(id) ==
    /\ ~crashed
    /\ id \in SeqIds(analyses)
    /\ error' = NoError
    /\ currentAnalysisId' = id
    /\ requests' = Supersede(requests)
    /\ lastEvent' = [op |-> "select", id |-> id, file |-> NoFile, body |-> NoBody]
    /\ UNCHANGED <<analyses, storage, crashed, isLoading, issued>>
    /\ UNCHANGED <<backendVars, fetchVars, isSidebarOpen>>

\* handleNewAnalysis, the New Analysis button of the Sidebar.
LocalNewAnalysis ==
    /\ ~crashed
    /\ error' = NoError
    /\ currentAnalysisId' = 0
    /\ requests' = Supersede(requests)
    /\ lastEvent' = [op |-> "newAnalysis", id |-> 0, file |-> NoFile, body |-> NoBody]
    /\ UNCHANGED <<analyses, storage, crashed, isLoading, issued>>
    /\ UNCHANGED <<backendVars, fetchVars, isSidebarOpen>>

NextLocal ==
    \/ \E f \in Files : LocalOnDrop(f)
    \/ \E r \in requests, resp \in SubmitResponses, now \in Ids, quota \in BOOLEAN :
          LocalGenerateSummarySettles(r, resp, now, quota)
    \/ \E id \in Ids : LocalSelectAnalysis(id)
    \/ LocalNewAnalysis

SpecLocal == InitLocal /\ [][NextLocal]_vars

\* ===================================================================
\* Fetch App (src/src/App.tsx:379-517) with the first Uploader of
\* src/unnamed/part_000 (lines 1-35)
\* ===================================================================

\* useDropzone({onDrop}) without an accept option: every file is accepted.
AcceptedAny(f) == <<f>>

\* The ResumeData the server parsed out of file f.
ParsedFrom(f) == [parsedFrom |-> f.name]

\* The Start Over button is rendered when `file || resumeData || error`.
StartOverShown == file # NoFile \/ resumeData # NoData \/ Truthy(error)

\* The Generate Summary button is the last branch of
\* `!file ? <Uploader/> : isLoading ? ... : error ? ... : resumeData ? ... :`.
GenerateShown ==
    file # NoFile /\ ~isLoading /\ ~Truthy(error) /\ resumeData = NoData

InitFetch ==
    /\ file = NoFile
    /\ resumeData = NoData
    /\ isSidebarOpen = TRUE
    /\ isLoading = FALSE
    /\ error = NoError
    /\ requests = {}
    /\ issued = 0
    /\ history = <<>>
    /\ currentAnalysis = NoAnalysis
    /\ uploaderKey = 0
    /\ selectedFile = NoFile
    /\ analyses = <<>>
    /\ currentAnalysisId = 0
    /\ storage = [kind |-> "missing", items |-> <<>>]
    /\ crashed = FALSE
    /\ lastEvent = [op |-> "mount", id |-> 0, file |-> NoFile, body |-> NoBody]

\* Uploader.onDrop with onFileSelect = setFile; the Uploader is rendered
\* while file is null.
FetchOnDrop(f) ==
    /\ file = NoFile
    /\ file' = IF Len(AcceptedAny(f)) > 0 THEN AcceptedAny(f)[1] ELSE file
    /\ lastEvent' = [op |-> "drop", id |-> 0, file |-> f, body |-> NoBody]
    /\ UNCHANGED <<resumeData, isLoading, error, requests, issued>>
    /\ UNCHANGED <<backendVars, localVars, isSidebarOpen>>

\* handleReset, the Start Over button.
FetchHandleReset ==
    /\ StartOverShown
    /\ file' = NoFile
    /\ resumeData' = NoData
    /\ error' = NoError
    /\ requests' = Supersede(requests)
    /\ lastEvent' = [op |-> "reset", id |-> 0, file |-> NoFile, body |-> NoBody]
    /\ UNCHANGED <<isLoading, issued>>
    /\ UNCHANGED <<backendVars, localVars, isSidebarOpen>>

\* handleGenerateSummary up to its first await, the Generate Summary button.
FetchHandleGenerateSummary ==
    /\ GenerateShown
    /\ issued < MaxRequests
    /\ isLoading' = TRUE
    /\ error' = NoError
    /\ issued' = issued + 1
    /\ requests' = requests \cup {Request(issued + 1, "submit", file, 0, <<>>)}
    /\ lastEvent' = [op |-> "generate", id |-> 0, file |-> NoFile, body |-> NoBody]
    /\ UNCHANGED <<file, resumeData>>
    /\ UNCHANGED <<backendVars, localVars, isSidebarOpen>>

\* handleGenerateSummary after its awaits.
FetchGenerateSummarySettles(r, resp) ==
    /\ r \in InFlight("submit")
    /\ requests' = requests \ {r}
    /\ IF resp.outcome = "ok"
       THEN resumeData' = ParsedFrom(r.file) /\ error' = error
       ELSE resumeData' = resumeData
            /\ error' = SubmitMessage(resp.outcome, resp.detail)
    /\ isLoading' = FALSE
    /\ lastEvent' = [op |-> IF resp.outcome = "ok" THEN "submitSucceeded"
                             ELSE "submitFailed",
                     id |-> r.id, file |-> NoFile, body |-> ResponseBody(resp)]
    /\ UNCHANGED <<file, issued>>
    /\ UNCHANGED <<backendVars, localVars, isSidebarOpen>>

NextFetch ==
    \/ \E f \in Files : FetchOnDrop(f)
    \/ FetchHandleReset
    \/ FetchHandleGenerateSummary
    \/ \E r \in requests, resp \in SubmitResponses :
          FetchGenerateSummarySettles(r, resp)

SpecFetch == InitFetch /\ [][NextFetch]_vars

\* ===================================================================
\* Properties
\* ===================================================================

\* The fetch call r settles in this step.
Settles(r) == r.id \notin {q.id : q \in requests'}

\* The state the App's own variables and the network are in.
appVars == <<history, currentAnalysis, isLoading, error, uploaderKey, selectedFile,
             requests, issued>>

\* C1: a submit (POST /parse-resume) is never started while another request
\* is in flight: every request in flight together with a submit was issued
\* after it.
C1_NoSubmitWhileInFlight ==
    \A r \in InFlight("submit") : \A q \in requests : q.id >= r.id

\* C2: while a submit or a fetch-by-id is in flight, a click on a Sidebar
\* entry issues no request and changes no state.
C2_SelectIgnoredWhilePending ==
    [][(lastEvent'.op = "select" /\ InFlight("submit") \cup InFlight("get") # {})
          => UNCHANGED appVars]_vars

\* C3: the response to a request that was superseded (New Analysis, or the
\* selection of another entry, after it was issued) changes neither the
\* active record nor the error.
C3_LateResponseIgnored ==
    [][\A r \in requests :
          (r.superseded /\ Settles(r))
             => (currentAnalysis' = currentAnalysis /\ error' = error)]_vars

\* C4: when a submit fails, the file that was submitted is still the
\* Uploader's selected file, and Analyze can be pressed again.
C4_CandidateSurvivesFailure ==
    [][\A r \in InFlight("submit") :
          (Settles(r) /\ lastEvent'.op = "submitFailed")
             => /\ selectedFile' = r.file
                /\ UploaderShown(error', currentAnalysis')
                /\ ~isLoading']_vars

\* C5: when a submit fails, the history is what it was when the submit was
\* issued.
C5_FailedSubmitKeepsHistory ==
    [][\A r \in InFlight("submit") :
          (Settles(r) /\ lastEvent'.op = "submitFailed")
             => history' = r.captured]_vars

\* C6: when a submit succeeds, the record shown is the new one, named after
\* the submitted file, it is the first element of the history, and the
\* history has grown by one.
C6_SubmitSuccessShowsNewFirst ==
    [][\A r \in InFlight("submit") :
          (Settles(r) /\ lastEvent'.op = "submitSucceeded")
             => LET shown == LocalCurrentAnalysis(analyses', currentAnalysisId') IN
                /\ ~Truthy(error')
                /\ shown # NoAnalysis
                /\ shown.filename = r.file.name
                /\ Len(analyses') = Len(analyses) + 1
                /\ analyses'[1] = shown]_vars

\* C7: the history holds no id twice.
C7_HistoryIdsUnique == Cardinality(SeqIds(analyses)) = Len(analyses)

\* C8: a successful submit puts its record in front of every record that was
\* recorded before it.
C8_NewestFirst ==
    [][lastEvent'.op = "submitSucceeded"
          => (Len(analyses') = Len(analyses) + 1 /\ Tail(analyses') = analyses)]_vars

\* C9: selecting the entry whose id is the active record's id issues no
\* request and changes no state variable.
C9_SelectSameIsNoOp ==
    [][(lastEvent'.op = "select" /\ currentAnalysis # NoAnalysis
          /\ currentAnalysis.id = lastEvent'.id)
          => UNCHANGED appVars]_vars

\* A Sidebar entry was clicked while its record was the active one.
C9_Witness ==
    /\ lastEvent.op = "select"
    /\ currentAnalysis # NoAnalysis
    /\ currentAnalysis.id = lastEvent.id

\* Idle: no active record, no error, no selected file, and no submit or
\* fetch-by-id pending.
Idle ==
    /\ currentAnalysis = NoAnalysis
    /\ error = NoError
    /\ selectedFile = NoFile
    /\ InFlight("submit") \cup InFlight("get") = {}

\* C10: New Analysis leaves the App in Idle, whatever state it was in.
C10_NewAnalysisResetsToIdle == lastEvent.op = "newAnalysis" => Idle

\* C11: in every reachable state where an error message is set, no record is
\* active: currentAnalysis is null, so the Sidebar (which is handed
\* currentAnalysis?.id || null) marks no entry as current.
SidebarCurrentId ==
    IF currentAnalysis # NoAnalysis THEN currentAnalysis.id ELSE 0

C11_NoRecordWhileFailed ==
    Truthy(error) => (currentAnalysis = NoAnalysis /\ SidebarCurrentId = 0)

\* C12: a pending candidate file and an active record are never both present,
\* neither in the backend-integrated App (selectedFile, currentAnalysis) nor
\* in the fetch App (file, resumeData).
C12_CandidateOrRecord ==
    /\ ~(selectedFile # NoFile /\ currentAnalysis # NoAnalysis)
    /\ ~(file # NoFile /\ resumeData # NoData)

\* C13: dropping a file whose type is not application/pdf on the enabled
\* dropzone leaves the selected file unchanged, issues no request, and shows
\* an error to the user.
C13_RejectedTypeSurfacesError ==
    [][(lastEvent'.op = "drop" /\ lastEvent'.file.type # PDF /\ ~isLoading)
         => /\ selectedFile' = selectedFile
            /\ requests' = requests /\ issued' = issued
            /\ Truthy(error')]_vars

\* C14 (as stated): a PDF dropped on the mounted Uploader becomes the
\* selected file in every state, a request in flight included.
C14_AcceptedDropAlwaysReplaces ==
    [][(lastEvent'.op = "drop" /\ lastEvent'.file.type = PDF)
         => selectedFile' = lastEvent'.file]_vars

\* C14 (amended): a PDF dropped on the mounted Uploader becomes the selected
\* file, replacing the one selected before, whenever isLoading is false;
\* while isLoading the dropzone is disabled and the drop changes nothing.
C14_AcceptedDropReplaces ==
    [][(lastEvent'.op = "drop" /\ lastEvent'.file.type = PDF)
         => selectedFile' = IF isLoading THEN selectedFile
                            ELSE lastEvent'.file]_vars

C14_Witness ==
    /\ lastEvent.op = "drop" /\ lastEvent.file.type = PDF
    /\ ~isLoading
    /\ selectedFile = lastEvent.file

\* C15: in the local-storage App, loading the history at startup never fails
\* the application: whatever the stored blob is (missing, not JSON, JSON but
\* not an array), no render throws, and after a load of such a blob the
\* history is the empty list.
C15_LoadNeverFails ==
    /\ ~crashed
    /\ (lastEvent.op = "mount" /\ storage.kind # "array") => analyses = <<>>

\* C16: in the local-storage App, after every successful submit the stored
\* blob is the serialization of exactly the in-memory list (it parses back
\* to it), and every record the blob held before is still in it.
StoredItems(blob) == {blob.items[k] : k \in 1..Len(blob.items)}

FailureEvents == {"listFailed", "submitFailed", "selectFailed"}

C17_EveryFailureShown ==
    lastEvent.op \in FailureEvents => (Truthy(error) /\ ~isLoading)

C17_Witness ==
    /\ lastEvent.op = "submitFailed"
    /\ lastEvent.body = "<absent>"
    /\ error = SomethingWrong

\* C18: when the submit gets a non-2xx answer, the error shown is the body's
\* detail string when the body carries one, and the generic fallback when
\* the body has no (or an empty) detail or is not JSON.
ExpectedSubmitError(body) ==
    IF body \in {"<absent>", "", Unparseable} THEN SomethingWrong ELSE body

C18_DetailOrGenericFallback ==
    (lastEvent.op = "submitFailed" /\ lastEvent.body # NoBody)
       => error = ExpectedSubmitError(lastEvent.body)

\* C19: Analyze hands the selected file to handleGenerateSummary and leaves
\* the Uploader's selected file as it was; a submit is only ever issued for
\* the file that is selected, so without a selected file none is issued.
NewSubmits ==
    {r \in requests' : r.kind = "submit" /\ r.id \notin {q.id : q \in requests}}

C19_ConfirmKeepsCandidate ==
    [][/\ lastEvent'.op = "analyze"
            => (selectedFile' = selectedFile /\ NewSubmits # {})
       /\ \A r \in NewSubmits :
            selectedFile # NoFile /\ r.file = selectedFile]_vars

C19_Witness ==
    /\ lastEvent.op = "analyze"
    /\ selectedFile # NoFile
    /\ \E r \in InFlight("submit") : r.file = selectedFile

\* C20: if every fetch call eventually settles, every state with a submit or
\* a fetch-by-id in flight leads to a state with none in flight that shows a
\* record or an error; and whenever no fetch call is outstanding the loading
\* flag is false.
Pending == InFlight("submit") \cup InFlight("get") # {}
Detail == currentAnalysis # NoAnalysis /\ ~Truthy(error)
Failed == Truthy(error)

LatestSelectionShown == lastEvent.op = "selectSucceeded" /\ lastEvent.id = issued

C21_LastSelectionShown ==
    [][\A r \in InFlight("get") :
         (Settles(r) /\ lastEvent'.op = "selectSucceeded")
           => IF LatestSelectionShown
              THEN currentAnalysis' = currentAnalysis
              ELSE currentAnalysis'.id = r.target]_vars

\* C22: the upload can be confirmed from Idle with a file selected, from
\* Detail and from Failed: in each of them, with nothing loading, Analyze is
\* available (and, taken, sets isLoading and clears the error).
IdleWithCandidate ==
    currentAnalysis = NoAnalysis /\ error = NoError /\ selectedFile # NoFile

C22_ConfirmFromIdleDetailFailed ==
    (~isLoading /\ issued < MaxRequests
       /\ (IdleWithCandidate \/ Detail \/ Failed))
      => ENABLED HandleAnalyze

\* C23: starting a submit clears the active record, throughout a pending
\* submit no record is active, and a failing submit leaves none active.
C23_NoRecordWhileSubmitting ==
    /\ InFlight("submit") # {} => currentAnalysis = NoAnalysis
    /\ (lastEvent.op = "submitFailed" /\ requests = {})
          => currentAnalysis = NoAnalysis

\* C24: in the backend-integrated App isLoading is true exactly when at
\* least one fetch call is outstanding.
C24_LoadingIffOutstanding == isLoading <=> requests # {}

\* C25: in the backend-integrated App a record of the history is never
\* removed or replaced by a later event; in particular the response of the
\* startup list request only ever replaces an empty history, never one that
\* holds a submitted record.
Keeps(old, new) ==
    \A k \in 1..Len(old) : \E j \in 1..Len(new) : new[j] = old[k]

C25_SubmittedRecordsStay ==
    [][IF lastEvent'.op = "listSucceeded"
       THEN history = <<>>
       ELSE Keeps(history, history')]_vars

C25_Witness ==
    /\ lastEvent.op = "submitSucceeded"
    /\ Len(history) >= 3
    /\ history[2].filename \in FileNames

\* C26: the history list changes only when the startup list request
\* succeeds and when a submit succeeds; selecting an entry (its fetch
\* succeeding or failing), New Analysis, choosing or changing the file,
\* toggling the sidebar and every failed request leave it unchanged.
C26_HistoryFrame ==
    [][history' # history
         => lastEvent'.op \in {"listSucceeded", "submitSucceeded"}]_vars

C26_Witness ==
    /\ lastEvent.op = "toggleSidebar"
    /\ ~isSidebarOpen
    /\ Len(history) >= 2
    /\ history[1].filename \in FileNames

\* C27: in the fetch App a result is present only while a file is present:
\* resumeData non-null implies file non-null, also after Start Over is
\* pressed while the request is in flight.
C27_ResultOnlyWithFile == resumeData # NoData => file # NoFile

\* C28: in the local-storage App, whenever currentAnalysisId is non-null the
\* history holds a record with that id, and the record shown is the one
\* recorded under it: right after a successful submit, the record just
\* appended.
C28_CurrentIdResolves ==
    currentAnalysisId # 0
      => /\ currentAnalysisId \in SeqIds(analyses)
         /\ lastEvent.op = "submitSucceeded"
              => LocalCurrentAnalysis(analyses, currentAnalysisId)
                   = analyses[Len(analyses)]

\* C29: from every reachable state, and so from every Failed one, the user
\* can get back to Idle with the intake enabled: every outstanding request
\* can settle and each settlement leaves fewer outstanding; New Analysis can
\* always be pressed, and pressed with nothing outstanding it leaves the App
\* Idle with the Uploader rendered and enabled, where a dropped PDF becomes
\* the candidate and can be submitted.
SettleEvents ==
    FailureEvents \cup {"listSucceeded", "submitSucceeded", "selectSucceeded"}

SettleSome == \E n \in 1..MaxRequests : SettleRequest(n)

IdleEnabled ==
    /\ Idle
    /\ ~isLoading
    /\ UploaderShown(error, currentAnalysis)

C29_FailedCanRecover ==
    /\ [](requests # {} => ENABLED SettleSome)
    /\ [][lastEvent'.op \in SettleEvents
            => (requests' \subseteq requests /\ requests' # requests)]_vars
    /\ [](ENABLED HandleNewAnalysis)
    /\ [][(lastEvent'.op = "newAnalysis" /\ requests = {}) => IdleEnabled']_vars
    /\ [](IdleEnabled => \A f \in Files : ENABLED OnDrop(f))
    /\ [][(IdleEnabled /\ lastEvent'.op = "drop" /\ lastEvent'.file.type = PDF)
            => (IdleWithCandidate' /\ selectedFile' = lastEvent'.file)]_vars
    /\ []((IdleWithCandidate /\ ~isLoading /\ issued < MaxRequests)
            => ENABLED HandleAnalyze)

C29_Witness ==
    /\ lastEvent.op = "submitFailed"
    /\ Failed
    /\ requests = {}
    /\ ~IdleEnabled
    /\ ENABLED HandleNewAnalysis

=============================================================================
